---- MODULE Spec2Model ----
(***************************************************************************)
(* Model of the Pipecat agent builder: the generation orchestrator with    *)
(* its template fallback (src/main.py, src/mcp/cascade_client.py), the     *)
(* validation of a generated file set, the interactive build pipeline,     *)
(* the persistence of a file set to the agent directory, the template      *)
(* generator, the web application's concurrent builds (src/web_app.py,     *)
(* src/mvp_main.py) and the cloud deployer (src/deployment).               *)
(***************************************************************************)
EXTENDS Integers, Sequences, FiniteSets, TLC

(***************************************************************************)
(* Bounds of the model.                                                    *)
(***************************************************************************)
\* number of save calls explored by SpecSave
MaxSaves == 3

(***************************************************************************)
(* Data: file names, file contents, file sets.                             *)
(***************************************************************************)
None == "None"

FileNames == {"bot.py", "requirements.txt", "Dockerfile", "pcc-deploy.toml",
              "knowledge_processor.py"}

\* What ast.parse does with a text: it returns a tree, raises SyntaxError, or
\* raises something else (MemoryError or RecursionError for a deeply nested
\* expression, ValueError for a null byte before Python 3.12, TypeError for a
\* value that is not text).
Syntaxes == {"ok", "SyntaxError", "OtherError"}

\* The substrings the validator looks for in a text.
Tokens == {"pipecat", "asyncio", "pipecat-ai"}

\* Two variants of the text of a file (the requirements' free text differs).
Variants == {"v1", "v2"}

\* A text is known by how it parses, which of the substrings occur in it and
\* its variant.  "pipecat" is a substring of "pipecat-ai".
\* A text of the template generator also carries the blocks it is composed of.
Contents == {c \in [syntax : Syntaxes, tokens : SUBSET Tokens, ver : Variants,
                    blocks : {<<>>}] :
                "pipecat-ai" \in c.tokens => "pipecat" \in c.tokens}

Text(s, t, v) == [syntax |-> s, tokens |-> t, ver |-> v, blocks |-> <<>>]

\* the empty mapping {}
EmptyFiles == [n \in {} |-> None]

\* Python's "s in text"
Contains(text, s) == s \in text.tokens

\* ast.parse(text): "ok" or the class of the exception raised
ast_parse(text) == text.syntax

(***************************************************************************)
(* PipecatAgentBuilder._validate_generated_code                            *)
(***************************************************************************)
required_files == <<"bot.py", "requirements.txt", "Dockerfile">>

required_imports == <<"pipecat", "asyncio">>

MissingFileError(f) == [msg |-> "Missing required file", arg |-> f]

SyntaxErrorInBot == [msg |-> "Syntax error in bot.py", arg |-> "SyntaxError"]

MissingImportWarning(i) == [msg |-> "Missing import", arg |-> i]

MissingDependencyWarning == [msg |-> "Missing pipecat-ai dependency", arg |-> "pipecat-ai"]

\* "Check required files": one error for each required file that is missing,
\* in the order of required_files
missing_file_errors(generated_files) ==
    LET missing == SelectSeq(required_files, LAMBDA f : f \notin DOMAIN generated_files)
    IN  [i \in 1..Len(missing) |-> MissingFileError(missing[i])]

\* what ast.parse does with bot.py ("ok" when there is no bot.py to parse)
bot_parse(generated_files) ==
    IF "bot.py" \in DOMAIN generated_files
    THEN ast_parse(generated_files["bot.py"]) ELSE "ok"

\* The exceptions of ast.parse that the try around it catches.
caught_by_validator(exception) == exception = "SyntaxError"

\* "Validate Python syntax in bot.py": the error appended by the handler
syntax_errors(generated_files) ==
    IF bot_parse(generated_files) # "ok" /\ caught_by_validator(bot_parse(generated_files))
    THEN <<SyntaxErrorInBot>> ELSE <<>>

\* "Check for required imports in bot.py": one warning for each name that is
\* not a substring of bot.py
import_warnings(generated_files) ==
    IF "bot.py" \in DOMAIN generated_files
    THEN LET absent == SelectSeq(required_imports,
                                 LAMBDA i : ~Contains(generated_files["bot.py"], i))
         IN  [i \in 1..Len(absent) |-> MissingImportWarning(absent[i])]
    ELSE <<>>

\* "Validate requirements.txt format"
dependency_warnings(generated_files) ==
    IF "requirements.txt" \in DOMAIN generated_files
       /\ ~Contains(generated_files["requirements.txt"], "pipecat-ai")
    THEN <<MissingDependencyWarning>> ELSE <<>>

\* as valid_flag, with a missing import counted against valid as well
valid_flag_imports_counted(generated_files) ==
    /\ \A i \in 1..Len(required_files) : required_files[i] \in DOMAIN generated_files
    /\ ~(bot_parse(generated_files) # "ok"
         /\ caught_by_validator(bot_parse(generated_files)))
    /\ import_warnings(generated_files) = <<>>

\* validation_result["valid"]: True at first, set to False beside each of the
\* two appends to errors
valid_flag(generated_files) ==
    /\ \A i \in 1..Len(required_files) : required_files[i] \in DOMAIN generated_files
    /\ ~(bot_parse(generated_files) # "ok"
         /\ caught_by_validator(bot_parse(generated_files)))

\* The result of the call: exc is "none" when it returns the dictionary
\* {valid, warnings, errors}, otherwise the class of the exception that leaves
\* the function, raised by ast.parse and not caught.
validate_generated_code(generated_files) ==
    LET parse == bot_parse(generated_files)
    IN  IF parse # "ok" /\ ~caught_by_validator(parse)
        THEN [exc |-> parse, valid |-> FALSE, errors |-> <<>>, warnings |-> <<>>]
        ELSE [exc |-> "none",
              valid |-> valid_flag(generated_files),
              errors |-> missing_file_errors(generated_files)
                         \o syntax_errors(generated_files),
              warnings |-> import_warnings(generated_files)
                           \o dependency_warnings(generated_files)]

(***************************************************************************)
(* Requirements and the collaborators' results.                            *)
(***************************************************************************)
\* Agent names, as sequences of characters.
Names == { <<"A", " ", "b">>, <<"a", "-", "b">>, <<"c">> }

\* requirements: the agent's name, whether knowledge_sources is non-empty,
\* and the variant of its free text
Requirements ==
    { [name |-> n, knowledge_sources |-> k, ver |-> v,
       stt_service |-> None, llm_service |-> None, tts_service |-> None,
       channels |-> {}, multilingual |-> FALSE, integrations |-> {}] :
      n \in Names, k \in BOOLEAN, v \in Variants }

\* a file that is not Python source
PlainText(t, v) == Text("SyntaxError", t, v)

(***************************************************************************)
(* PipecatTemplateGenerator.generate_agent_files                           *)
(***************************************************************************)
\* the three service slots of an agent
Slots == {"stt", "llm", "tts"}

\* the providers supported for a slot
KnownProviders(slot) ==
    CASE slot = "stt" -> {"deepgram", "openai"}
      [] slot = "llm" -> {"openai", "anthropic"}
      [] slot = "tts" -> {"cartesia", "elevenlabs", "openai"}

\* the provider taken when none is chosen
DefaultProvider(slot) ==
    CASE slot = "stt" -> "deepgram"
      [] slot = "llm" -> "openai"
      [] slot = "tts" -> "cartesia"

\* a provider no template knows
UnknownProvider == "acme"

\* what requirements may say for a slot: nothing, a known provider, another one
ServiceChoices(slot) == {None} \cup KnownProviders(slot) \cup {UnknownProvider}

\* The class a construction block instantiates, such as DeepgramSTTService
\* for deepgram and stt; <<>> where there is no class to name.
ServiceClass(slot, provider) ==
    IF provider \in KnownProviders(slot) THEN <<provider, slot>> ELSE <<>>

\* as service_block, with the slot left out for a provider that is not known
service_block_known_only(slot, choice) ==
    IF choice \in KnownProviders(slot)
    THEN << [slot |-> slot, cls |-> ServiceClass(slot, choice)] >>
    ELSE << >>

\* as service_block, with the choice rendered as it was given
service_block_verbatim(slot, choice) ==
    << [slot |-> slot, cls |-> ServiceClass(slot, choice)] >>

\* Service selection: the import and construction block of a slot.  A known
\* provider selects its own block, an absent or unknown one the default's.
service_block(slot, choice) ==
    LET provider == IF choice \in KnownProviders(slot)
                    THEN choice ELSE DefaultProvider(slot)
    IN  << [slot |-> slot, cls |-> ServiceClass(slot, provider)] >>

\* Transport selection: the phone transport if phone is a requested channel,
\* the web transport if it is not or if web is requested as well.
transport_blocks(req) ==
    (IF "phone" \in req.channels
     THEN << [slot |-> "transport", cls |-> <<"daily", "phone">>] >> ELSE << >>)
    \o (IF "phone" \notin req.channels \/ "web" \in req.channels
        THEN << [slot |-> "transport", cls |-> <<"daily", "web">>] >> ELSE << >>)

\* Localization: the multilingual block iff there is more than one language
language_blocks(req) ==
    IF req.multilingual
    THEN << [slot |-> "languages", cls |-> <<"multilingual">>] >> ELSE << >>

\* the symbol the knowledge module exports
KnowledgeSymbol == <<"KnowledgeProcessor">>

\* as knowledge_blocks, referring to the module by another name
knowledge_blocks_renamed(req) ==
    IF req.knowledge_sources
    THEN << [slot |-> "knowledge", cls |-> <<"KnowledgeBase">>] >> ELSE << >>

\* Knowledge integration: the import and use of the knowledge module's
\* symbol in the entry point iff knowledge_sources is non-empty
knowledge_blocks(req) ==
    IF req.knowledge_sources
    THEN << [slot |-> "knowledge", cls |-> KnowledgeSymbol] >> ELSE << >>

\* the blocks of bot.py in the order they are rendered
bot_blocks(req) ==
    service_block("stt", req.stt_service) \o service_block("llm", req.llm_service)
    \o service_block("tts", req.tts_service) \o transport_blocks(req)
    \o language_blocks(req) \o knowledge_blocks(req)

\* How the concatenation of blocks parses: a block that names no class
\* renders a call without a callee.
python_syntax(blocks) ==
    IF \A i \in 1..Len(blocks) : blocks[i].cls # <<>> THEN "ok" ELSE "SyntaxError"

\* the lines of requirements.txt a request adds: one per integration with a
\* known package, none for the others
dependency_blocks(req) ==
    IF "twilio" \in req.integrations
    THEN << [slot |-> "dependency", cls |-> <<"twilio">>] >> ELSE << >>

\* as template_keys, with the knowledge module rendered for every request
template_keys_always_knowledge(req) ==
    {"bot.py", "requirements.txt", "Dockerfile", "pcc-deploy.toml",
     "knowledge_processor.py"}

\* the files rendered for every request, and the knowledge module iff
\* knowledge_sources is non-empty
template_keys(req) ==
    {"bot.py", "requirements.txt", "Dockerfile", "pcc-deploy.toml"}
    \cup (IF req.knowledge_sources THEN {"knowledge_processor.py"} ELSE {})

\* PipecatTemplateGenerator.generate_agent_files: the four required files,
\* and the knowledge module iff knowledge_sources is non-empty.
generate_agent_files(req) ==
    [n \in template_keys(req) |->
        CASE n = "bot.py" ->
               [syntax |-> python_syntax(bot_blocks(req)),
                tokens |-> {"pipecat", "asyncio"}, ver |-> req.ver,
                blocks |-> bot_blocks(req)]
          [] n = "knowledge_processor.py" ->
               [Text("ok", {"asyncio"}, req.ver) EXCEPT
                   !.blocks = << [slot |-> "class", cls |-> KnowledgeSymbol] >>]
          [] n = "requirements.txt" ->
               [PlainText({"pipecat", "pipecat-ai"}, req.ver) EXCEPT
                   !.blocks = dependency_blocks(req)]
          [] OTHER -> PlainText({}, req.ver)]

\* the name of the environment-variable template
EnvTemplate == ".env.example"

\* a file set with the environment-variable template added to it
with_env_template(files, req) ==
    [n \in DOMAIN files \cup {EnvTemplate} |->
        IF n = EnvTemplate THEN PlainText({}, req.ver) ELSE files[n]]

\* What a call of the generator returns: the file set above, with or without
\* the environment-variable template (it is "conditionally present").
TemplateResults(req) ==
    { generate_agent_files(req), with_env_template(generate_agent_files(req), req) }

\* What the call self.template_generator.generate_agent_files(requirements)
\* can do in _generate_agent_code_with_fallback: return the generator's
\* mapping, return an empty mapping, or raise (the generator is an attribute of
\* the builder, the code after the call handles the last two).
TemplateOutcomes(req) ==
    { [exc |-> "none", files |-> f] : f \in TemplateResults(req) }
    \cup
    { [exc |-> "none", files |-> EmptyFiles],
      [exc |-> "Exception", files |-> EmptyFiles] }

\* The code_files mappings the remote collaborator answers with.
RemoteFileSets(req) ==
    LET v == req.ver
    IN  { EmptyFiles,
          generate_agent_files(req),
          \* no entry point
          [n \in {"requirements.txt", "Dockerfile"} |-> PlainText({"pipecat", "pipecat-ai"}, v)],
          \* an entry point that does not parse
          [n \in {"bot.py", "requirements.txt", "Dockerfile"} |->
              IF n = "bot.py" THEN Text("SyntaxError", {"asyncio"}, v)
              ELSE PlainText({"pipecat", "pipecat-ai"}, v)],
          \* an entry point on which ast.parse raises another exception
          [n \in {"bot.py", "requirements.txt", "Dockerfile"} |->
              IF n = "bot.py" THEN Text("OtherError", {"pipecat", "asyncio"}, v)
              ELSE PlainText({"pipecat", "pipecat-ai"}, v)],
          \* complete and parseable, without the expected imports and dependency
          [n \in {"bot.py", "requirements.txt", "Dockerfile"} |->
              IF n = "bot.py" THEN Text("ok", {}, v) ELSE PlainText({}, v)] }

\* the result of generate_code: null, or an object with code_files
AgentResults(req) ==
    { [null |-> TRUE, code_files |-> EmptyFiles] }
    \cup { [null |-> FALSE, code_files |-> f] : f \in RemoteFileSets(req) }

NoResult == [null |-> TRUE, code_files |-> EmptyFiles]

(***************************************************************************)
(* FileSink: PipecatAgentBuilder._save_generated_files                     *)
(***************************************************************************)
\* str.lower() on one character
lower(ch) == CASE ch = "A" -> "a" [] ch = "B" -> "b" [] ch = "C" -> "c" [] OTHER -> ch

\* requirements.name.lower().replace(' ', '_').replace('-', '_')
agent_name(name) ==
    [i \in 1..Len(name) |->
        LET ch == lower(name[i]) IN IF ch \in {" ", "-"} THEN "_" ELSE ch]

\* The order in which a mapping's items are written: a dictionary is iterated
\* in the order of insertion.
FileOrder == <<"bot.py", "requirements.txt", "Dockerfile", "pcc-deploy.toml",
               "knowledge_processor.py", ".env.example">>

\* the keys of files in the order of writing
items(files) == SelectSeq(FileOrder, LAMBDA n : n \in DOMAIN files)

\* the first k keys written
first_written(files, k) == {items(files)[i] : i \in 1..k}

\* A sink that makes the output root anew for every save: no directory but
\* the one written is left.
save_generated_files_fresh_root(fsys, dir, files, written) ==
    [d \in {dir} |-> [n \in written |-> files[n]]]

\* A sink that opens each file for exclusive creation: a file the directory
\* already holds keeps its content.
save_generated_files_keep_existing(fsys, dir, files, written) ==
    LET old  == IF dir \in DOMAIN fsys THEN fsys[dir] ELSE EmptyFiles
        new  == [n \in DOMAIN old \cup written |->
                    IF n \in DOMAIN old THEN old[n] ELSE files[n]]
    IN  [d \in DOMAIN fsys \cup {dir} |-> IF d = dir THEN new ELSE fsys[d]]

\* The file system below settings.output_path after the directory dir was
\* made (exist_ok) and the files named in written were opened with 'w' and
\* written; nothing else in the directory is touched.
save_generated_files(fsys, dir, files, written) ==
    LET old  == IF dir \in DOMAIN fsys THEN fsys[dir] ELSE EmptyFiles
        new  == [n \in DOMAIN old \cup written |->
                    IF n \in written THEN files[n] ELSE old[n]]
    IN  [d \in DOMAIN fsys \cup {dir} |-> IF d = dir THEN new ELSE fsys[d]]

\* no directory yet
EmptyFS == [d \in {} |-> EmptyFiles]

(***************************************************************************)
(* APIKeyValidator.validate_api_keys                                       *)
(***************************************************************************)
\* the keys required of settings, in the order of required_keys
KeyNames == <<"openai_api_key", "deepgram_api_key", "cartesia_api_key">>

\* the shortest key accepted
MinKeyLength == 10

\* A key value is known by its length (0 for None and for the empty string)
\* and by whether it starts with "sk-".
KeyValues ==
    { [len |-> l, sk |-> k] :
        l \in {0, MinKeyLength - 1, MinKeyLength}, k \in BOOLEAN } \
    { [len |-> 0, sk |-> TRUE] }

\* the prefix required_keys gives for a key: 'sk-' or None
has_prefix(key_name) == key_name = "openai_api_key"

\* the entry of results for one key
key_valid(key_name, key_value) ==
    IF key_value.len = 0 THEN FALSE
    ELSE IF has_prefix(key_name) /\ ~key_value.sk THEN FALSE
    ELSE IF key_value.len < MinKeyLength THEN FALSE
    ELSE TRUE

\* validate_api_keys(settings): the mapping from key name to validity
validate_api_keys(keys) ==
    [k \in {KeyNames[i] : i \in 1..Len(KeyNames)} |-> key_valid(k, keys[k])]

\* missing_keys of _validate_configuration
missing_keys(status) == {k \in DOMAIN status : ~status[k]}

\* settings with every required key valid
DefaultKeys ==
    [k \in {KeyNames[i] : i \in 1..Len(KeyNames)} |-> [len |-> MinKeyLength, sk |-> TRUE]]

\* all settings of the three keys
AllKeys == [{KeyNames[i] : i \in 1..Len(KeyNames)} -> KeyValues]

(***************************************************************************)
(* SecurityValidator.validate_agent_name                                   *)
(***************************************************************************)
\* A name is a sequence of characters; "getattr" stands for the seven
\* characters of that word.
NameAlphabet == {"a", "B", " ", ".", "-", "/", "getattr"}

\* the longest name given to the validator
MaxNameInput == 3

RECURSIVE SeqsUpTo(_, _)
SeqsUpTo(S, n) ==
    IF n = 0 THEN { <<>> }
    ELSE LET shorter == SeqsUpTo(S, n - 1)
         IN  shorter \cup { Append(q, x) : q \in {r \in shorter : Len(r) = n - 1}, x \in S }

NameInputs == SeqsUpTo(NameAlphabet, MaxNameInput)

\* the characters str.strip() removes
Whitespace == {" "}

RECURSIVE lstrip(_)
lstrip(name) ==
    IF name # <<>> /\ Head(name) \in Whitespace THEN lstrip(Tail(name)) ELSE name

RECURSIVE rstrip(_)
rstrip(name) ==
    IF name # <<>> /\ name[Len(name)] \in Whitespace
      THEN rstrip(SubSeq(name, 1, Len(name) - 1)) ELSE name

\* name.strip()
strip(name) == rstrip(lstrip(name))

\* len(name)
RECURSIVE len(_)
len(name) ==
    IF name = <<>> THEN 0
    ELSE (IF Head(name) = "getattr" THEN 7 ELSE 1) + len(Tail(name))

\* the longest name accepted
MaxNameLength == 100

\* SAFE_NAME_PATTERN: letters, digits, whitespace, '-', '_' and '.'
SAFE_NAME_PATTERN(name) ==
    /\ name # <<>>
    /\ \A i \in 1..Len(name) : name[i] \in {"a", "B", "c", "A", "b", "C", " ", ".", "-", "_", "getattr"}

\* one of DANGEROUS_PATTERNS is found in the name
dangerous(name) == \E i \in 1..Len(name) : name[i] = "getattr"

\* validate_agent_name(name): the stripped name, or ValidationError
validate_agent_name(name) ==
    IF name = <<>> \/ strip(name) = <<>>
      THEN [exc |-> "ValidationError", name |-> name]
    ELSE IF len(strip(name)) > MaxNameLength
      THEN [exc |-> "ValidationError", name |-> name]
    ELSE IF ~SAFE_NAME_PATTERN(strip(name))
      THEN [exc |-> "ValidationError", name |-> name]
    ELSE IF dangerous(strip(name))
      THEN [exc |-> "ValidationError", name |-> name]
    ELSE [exc |-> "none", name |-> strip(name)]

\* Path(settings.output_path) / agent_name, told by where it lies: the parts
\* of agent_name between '/' are walked from output_path, '.' stays, '..'
\* goes up, and a leading '/' starts at the root of the filesystem.
RECURSIVE walk(_, _, _)
walk(dir, part, depth) ==
    LET step == IF part = <<>> \/ part = <<".">> THEN depth
                ELSE IF part = <<".", ".">> THEN depth - 1
                ELSE depth + 1
    IN  IF dir = <<>> THEN (IF step < 0 THEN -1 ELSE step)
        ELSE IF Head(dir) = "/"
               THEN (IF step < 0 THEN -1 ELSE walk(Tail(dir), <<>>, step))
        ELSE walk(Tail(dir), Append(part, Head(dir)), depth)

location(dir) ==
    IF dir # <<>> /\ Head(dir) = "/" THEN "outside"
    ELSE LET depth == walk(dir, <<>>, 0)
         IN  IF depth < 0 THEN "outside" ELSE IF depth = 0 THEN "output_path" ELSE "below"

(***************************************************************************)
(* RequirementsValidator.validate_requirements                             *)
(***************************************************************************)
VALID_CHANNELS == {"phone", "web", "mobile", "whatsapp", "telegram"}

VALID_LANGUAGES == {"en", "es", "fr", "de", "it", "pt", "zh", "ja", "ko", "ru", "ar", "hi"}

\* the limit of scaling_max
MaxScaling == 100

\* the scaling bounds given to the validator
ScalingValues == {-1, 0, 1, MaxScaling, MaxScaling + 1}

\* the longest list of channels or languages given to the validator
MaxListed == 2

\* knowledge sources: the type of each, and whether its source passes
\* validate_url or validate_file_path
KnowledgeInputs ==
    { <<>>,
      << [type |-> "api", source_ok |-> FALSE] >>,
      << [type |-> "web", source_ok |-> TRUE] >>,
      << [type |-> "web", source_ok |-> FALSE] >>,
      << [type |-> "ftp", source_ok |-> TRUE] >> }

DeploymentInputs ==
    [scaling_min : ScalingValues, scaling_max : ScalingValues]

\* the requirements given to validate_requirements
RequirementInputs ==
    [name : { <<"B", " ">>, <<"/">> },
     description : { "", "d" },
     channels : SeqsUpTo({"web", "fax"}, MaxListed),
     languages : SeqsUpTo({"en", "xx"}, MaxListed),
     knowledge_sources : KnowledgeInputs,
     deployment : { [scaling_min |-> 1, scaling_max |-> 10],
                    [scaling_min |-> 10, scaling_max |-> 1] }]

\* validate_description(description) raises
description_rejected(description) == description = ""

\* _validate_knowledge_source(ks) raises
knowledge_source_rejected(ks) ==
    IF ks.type \in {"web", "document"} THEN ~ks.source_ok
    ELSE ks.type \notin {"web", "document", "api", "database"}

\* _validate_deployment_config without its upper limit
validate_deployment_config_no_limit(deployment) ==
    IF deployment.scaling_min < 0 THEN "ValidationError"
    ELSE IF deployment.scaling_max < deployment.scaling_min THEN "ValidationError"
    ELSE "ok"

\* _validate_deployment_config(deployment): "ok", or the exception raised
validate_deployment_config(deployment) ==
    IF deployment.scaling_min < 0 THEN "ValidationError"
    ELSE IF deployment.scaling_max < deployment.scaling_min THEN "ValidationError"
    ELSE IF deployment.scaling_max > MaxScaling THEN "ValidationError"
    ELSE "ok"

\* the loop over requirements.channels raises
channels_rejected(channels) ==
    \E i \in 1..Len(channels) : channels[i] \notin VALID_CHANNELS

\* requirements.channels with no default applied
channels_defaulted_never(channels) == channels

\* requirements.channels after the default was applied
channels_defaulted(channels) == IF channels = <<>> THEN <<"web">> ELSE channels

\* the loop over requirements.languages raises
languages_rejected(languages) ==
    \E i \in 1..Len(languages) : languages[i] \notin VALID_LANGUAGES

\* requirements.languages after the default was applied
languages_defaulted(languages) == IF languages = <<>> THEN <<"en">> ELSE languages

\* validate_requirements(requirements): the requirements returned, or the
\* exception raised and the requirements as they were left
validate_requirements(r) ==
    LET named == validate_agent_name(r.name)
        r1 == [r EXCEPT !.name = named.name]
        r2 == [r1 EXCEPT !.channels = channels_defaulted(r.channels)]
        r3 == [r2 EXCEPT !.languages = languages_defaulted(r.languages)]
        raised(req) == [exc |-> "ValidationError", requirements |-> req]
    IN  IF named.exc # "none" THEN raised(r)
        ELSE IF description_rejected(r.description) THEN raised(r1)
        ELSE IF channels_rejected(r.channels) THEN raised(r1)
        ELSE IF languages_rejected(r.languages) THEN raised(r2)
        ELSE IF \E i \in 1..Len(r.knowledge_sources) :
                    knowledge_source_rejected(r.knowledge_sources[i]) THEN raised(r3)
        ELSE IF validate_deployment_config(r.deployment) # "ok" THEN raised(r3)
        ELSE [exc |-> "none", requirements |-> r3]

\* before validate_requirements was called
NoInput ==
    [name |-> <<>>, description |-> "", channels |-> <<>>, languages |-> <<>>,
     knowledge_sources |-> <<>>, deployment |-> [scaling_min |-> 0, scaling_max |-> 0]]

NotCalled == [exc |-> "uncalled", requirements |-> NoInput]

NoName == [exc |-> "uncalled", name |-> <<>>]

(***************************************************************************)
(* MetricsCollector: the build sessions                                    *)
(***************************************************************************)
\* the session ids given to the collector
SessionIds == {"s1", "s2"}

\* the statuses given to end_session
EndStatuses == {"completed", "failed", "interrupted"}

\* the calls made to the collector
MaxCalls == 4

\* BuildSession(session_id, start_time): end_time is None (ended is FALSE)
\* and status is "in_progress"
BuildSession(now) ==
    [start_time |-> now, ended |-> FALSE, end_time |-> 0, status |-> "in_progress"]

\* self.sessions = {}
NoSessions == [id \in {} |-> BuildSession(0)]

\* start_session(session_id): self.sessions[session_id] = session
start_session(all, id, now) ==
    [i \in DOMAIN all \cup {id} |-> IF i = id THEN BuildSession(now) ELSE all[i]]

\* end_session that records a session for an id it does not know
end_session_anyway(all, id, status, now) ==
    [i \in DOMAIN all \cup {id} |->
        IF i = id
          THEN [start_time |-> now, ended |-> TRUE, end_time |-> now, status |-> status]
          ELSE all[i]]

\* end_session(session_id, status): nothing for an id not in self.sessions,
\* otherwise end_time and status are set
end_session(all, id, status, now) ==
    IF id \notin DOMAIN all THEN all
    ELSE [all EXCEPT ![id].ended = TRUE, ![id].end_time = now, ![id].status = status]

\* sum(1 for s in self.sessions.values() if s.status == status)
RECURSIVE count_status(_, _, _)
count_status(all, ids, status) ==
    IF ids = {} THEN 0
    ELSE LET id == CHOOSE i \in ids : TRUE
         IN  (IF all[id].status = status THEN 1 ELSE 0) + count_status(all, ids \ {id}, status)

\* get_session_stats(): the counts of the dictionary it returns
get_session_stats(all) ==
    [total_sessions |-> Cardinality(DOMAIN all),
     completed_sessions |-> count_status(all, DOMAIN all, "completed"),
     failed_sessions |-> count_status(all, DOMAIN all, "failed")]

NoStatistics == [total_sessions |-> 0, completed_sessions |-> 0, failed_sessions |-> 0]

NoCall == [op |-> "none", id |-> "", status |-> ""]

(***************************************************************************)
(* RequirementsProcessor: the requirements-gathering conversation          *)
(***************************************************************************)
\* ConversationState, in the order of its declaration
ConversationState ==
    <<"greeting", "basic_info", "use_case", "channels", "languages", "personality",
      "services", "knowledge", "integrations", "deployment", "confirmation", "complete">>

\* What the user says: the name the patterns of _extract_basic_info capture
\* in it ("" if none), and the keywords it mentions.
Texts ==
    { [id |-> "t1", named |-> "bob", mentions |-> {}],
      [id |-> "t2", named |-> "", mentions |-> {"phone", "spanish"}],
      [id |-> "t3", named |-> "", mentions |-> {"faq", "slack"}] }

NoText == [id |-> "", named |-> "", mentions |-> {}]

\* the transcription frames of one conversation
MaxInputs == 4

\* ConversationProgress.requirements after __post_init__
NoProgress ==
    [name |-> "", description |-> NoText, use_case |-> NoText, channels |-> <<>>,
     languages |-> <<"en">>, personality |-> NoText, knowledge_sources |-> <<>>,
     integrations |-> <<>>]

\* _extract_basic_info: the captured name or "Custom Agent", and the description
extract_basic_info(req, text) ==
    LET name == IF text.named # "" THEN text.named ELSE req.name
    IN  [req EXCEPT !.name = IF name = "" THEN "Custom Agent" ELSE name,
                    !.description = text]

\* _extract_channels
extract_channels(req, text) ==
    LET channels == (IF "phone" \in text.mentions THEN <<"phone">> ELSE <<>>)
                    \o (IF "web" \in text.mentions THEN <<"web">> ELSE <<>>)
    IN  [req EXCEPT !.channels = IF channels = <<>> THEN <<"web">> ELSE channels]

\* _extract_languages
extract_languages(req, text) ==
    [req EXCEPT !.languages =
        <<"en">> \o (IF "spanish" \in text.mentions THEN <<"es">> ELSE <<>>)]

\* _extract_knowledge_sources
extract_knowledge_sources(req, text) ==
    [req EXCEPT !.knowledge_sources =
        IF "faq" \in text.mentions THEN <<"faq_database">> ELSE <<>>]

\* _extract_integrations
extract_integrations(req, text) ==
    [req EXCEPT !.integrations =
        IF "slack" \in text.mentions THEN <<"slack">> ELSE <<>>]

\* the branches of _process_user_input: the extraction of the current state
process_user_input(state, req, text) ==
    CASE state = "basic_info"   -> extract_basic_info(req, text)
      [] state = "use_case"     -> [req EXCEPT !.use_case = text]
      [] state = "channels"     -> extract_channels(req, text)
      [] state = "languages"    -> extract_languages(req, text)
      [] state = "personality"  -> [req EXCEPT !.personality = text]
      [] state = "knowledge"    -> extract_knowledge_sources(req, text)
      [] state = "integrations" -> extract_integrations(req, text)
      [] OTHER                  -> req

\* ConversationProgress.state after _process_user_input: no statement of
\* the module assigns it
state_after_input(state) == state

(***************************************************************************)
(* State.                                                                  *)
(***************************************************************************)
VARIABLES
    pc,                 \* where build_agent_interactive (and the orchestrator it calls) stands
    requirements,       \* the gathered requirements
    websocket,          \* CascadeAgentGenerator.websocket is set
    agent_result,       \* build_complete_agent's agent_result
    trace,              \* the collaborator calls made by the generation step, in order
    fail_step,          \* the step at which the remote attempt was given up, None if it was not
    awaiting,           \* _send_request has sent a request and awaits websocket.recv()
    template,           \* what the template generator's call did
    generated_files,    \* build_agent_interactive's generated_files, empty while unbound
    gen,                \* the generation step: "pending", "returned" or the exception it raised
    validation_result,  \* build_agent_interactive's validation_result, None while unbound
    reported,           \* the validation diagnostics written to the log or the console
    fs,                 \* the directories below settings.output_path and their files
    agent_dir,          \* the directory _save_generated_files returned, <<>> before
    save_calls,         \* how often _save_generated_files was called
    session,            \* the status of the build's session
    ends,               \* how often end_session was called for it
    deployed,           \* the deployment succeeded
    vin,                \* the argument of a direct call of the validator
    vout,               \* its result
    saves,              \* the direct calls of _save_generated_files so far
    dpc,                \* where PipecatCloudDeployer.deploy_agent stands
    dname,              \* the name of the requirements it deploys
    api_key,            \* settings.pipecat_cloud_api_key is set
    image_tag,          \* the image tag built: its user and its agent identifier
    uploaded,           \* the secret set the secrets were stored under, <<>> if none
    deployment_config,  \* the deployment config posted to the cloud
    dstatus,            \* the status deploy_agent returned
    bpc,                \* where each request of the web application's build endpoint stands
    breq,               \* its requirements
    bfiles,             \* the file set generated for it
    bwritten,           \* how many files of it _save_files has written
    last_saver,         \* the request whose _save_files returned last, 0 if none
    overlapped,         \* two requests were in flight at the same time
    ipc,                \* where PipecatAgentBuilder.initialize stands
    settings,           \* the API keys of settings, one value for each required key
    key_status,         \* what validate_api_keys returned, <<>> before
    cause,              \* the exception caught by initialize's handler
    init_exc,           \* the exception initialize raised
    attempt,            \* the loop variable of _initialize_vectorizer_with_retry
    vtrace,             \* its attempts and sleeps, in order
    vec_exc,             \* the exception it raised
    rin,                \* the requirements given to a direct call of validate_requirements
    rout,               \* what it returned or raised
    din,                \* the deployment given to a direct call of _validate_deployment_config
    dout,               \* "ok", or the exception it raised
    nin,                \* the name given to a direct call of validate_agent_name
    nout,                \* what it returned or raised
    sessions,           \* MetricsCollector.sessions: the session of each id
    started,            \* the ids start_session was called with
    clock,              \* time.time(), counted in calls
    stats,              \* what get_session_stats returned last
    last_call,          \* the last call made to the collector
    before,              \* MetricsCollector.sessions before that call
    rpc,                \* where _deploy_agent_with_retry stands
    dattempt,           \* its loop variable
    dtrace,             \* the calls of deploy_agent that returned and the sleeps, in order
    dresult,            \* the status of the result it returned, "none" before
    dexc,                \* the exception it raised
    cpc,                \* where start_conversation stands
    progress_state,     \* RequirementsProcessor.progress.state
    progress,           \* RequirementsProcessor.progress.requirements
    conversation_history, \* RequirementsProcessor.conversation_history
    gathered            \* the requirements start_conversation returned

vars == <<pc, requirements, websocket, agent_result, trace, fail_step, awaiting, template,
          generated_files, gen, validation_result, reported, fs, agent_dir,
          save_calls, session, ends, deployed, vin, vout, saves,
          dpc, dname, api_key, image_tag, uploaded, deployment_config, dstatus,
          bpc, breq, bfiles, bwritten, last_saver, overlapped,
          ipc, settings, key_status, cause, init_exc, attempt, vtrace, vec_exc,
          rin, rout, din, dout, nin, nout,
          sessions, started, clock, stats, last_call, before,
          rpc, dattempt, dtrace, dresult, dexc,
          cpc, progress_state, progress, conversation_history, gathered>>

orch == <<websocket, agent_result, trace, fail_step, awaiting, template>>

outcome == <<generated_files, gen>>

after == <<validation_result, reported, fs, agent_dir, save_calls, deployed>>

sess == <<session, ends>>

direct == <<vin, vout, saves>>

web == <<bpc, breq, bfiles, bwritten, last_saver, overlapped>>

\* the requests the web application serves at the same time
Builds == {1, 2}

cloud == <<dpc, dname, api_key, image_tag, uploaded, deployment_config, dstatus>>

\* one run of the build, and the components modelled first
first == <<pc, requirements, orch, outcome, after, sess, direct, cloud, web>>

boot == <<ipc, settings, key_status, cause, init_exc, attempt, vtrace, vec_exc>>

vals == <<rin, rout, din, dout, nin, nout>>

metrics == <<sessions, started, clock, stats, last_call, before>>

retry == <<rpc, dattempt, dtrace, dresult, dexc>>

conv == <<cpc, progress_state, progress, conversation_history, gathered>>

\* the components modelled after those
later == <<boot, vals, metrics, retry, conv>>

\* the components that are exercised apart from one run of the build
apart == <<direct, cloud, web, later>>

NoRequirements ==
    [name |-> <<>>, knowledge_sources |-> FALSE, ver |-> "v1",
     stt_service |-> None, llm_service |-> None, tts_service |-> None,
     channels |-> {}, multilingual |-> FALSE, integrations |-> {}]

NoTemplate == [exc |-> "uncalled", files |-> EmptyFiles]

NoDir == <<>>

NoTag == [user |-> "", agent |-> <<>>]

NoConfig == [agent_name |-> <<>>, image |-> NoTag, secret_set |-> <<>>]

NoValidation == [exc |-> "unbound", valid |-> FALSE, errors |-> <<>>, warnings |-> <<>>]

InitBuild ==
    /\ pc = "start"
    /\ websocket = FALSE
    /\ agent_result = NoResult
    /\ trace = <<>>
    /\ fail_step = None
    /\ awaiting = FALSE
    /\ template = NoTemplate
    /\ generated_files = EmptyFiles
    /\ gen = "pending"
    /\ validation_result = NoValidation
    /\ reported = {}
    /\ fs = EmptyFS
    /\ agent_dir = NoDir
    /\ save_calls = 0
    /\ session = "none"
    /\ ends = 0
    /\ deployed = FALSE
    /\ vout = NoValidation
    /\ saves = 0
    /\ dpc = "idle"
    /\ dname = <<>>
    /\ api_key = FALSE
    /\ image_tag = NoTag
    /\ uploaded = <<>>
    /\ deployment_config = NoConfig
    /\ dstatus = "none"
    /\ bpc = [p \in Builds |-> "idle"]
    /\ breq = [p \in Builds |-> NoRequirements]
    /\ bfiles = [p \in Builds |-> EmptyFiles]
    /\ bwritten = [p \in Builds |-> 0]
    /\ last_saver = 0
    /\ overlapped = FALSE
    /\ ipc = "start"
    /\ key_status = <<>>
    /\ cause = "none"
    /\ init_exc = "none"
    /\ attempt = 0
    /\ vtrace = <<>>
    /\ vec_exc = "none"
    /\ rin = NoInput
    /\ rout = NotCalled
    /\ din = NoInput.deployment
    /\ dout = "unchecked"
    /\ nin = <<>>
    /\ nout = NoName
    /\ sessions = NoSessions
    /\ started = {}
    /\ clock = 0
    /\ stats = NoStatistics
    /\ last_call = NoCall
    /\ before = NoSessions
    /\ rpc = "loop"
    /\ dattempt = 0
    /\ dtrace = <<>>
    /\ dresult = "none"
    /\ dexc = "none"
    /\ cpc = "running"
    /\ progress_state = ConversationState[1]
    /\ progress = NoProgress
    /\ conversation_history = <<>>
    /\ gathered = NoProgress

Init ==
    /\ InitBuild
    /\ settings = DefaultKeys
    /\ requirements = NoRequirements
    /\ vin = EmptyFiles

(***************************************************************************)
(* build_agent_interactive, up to the generation step.                     *)
(***************************************************************************)
\* start_session(session_id)
StartBuild ==
    /\ pc = "start"
    /\ session' = "in_progress"
    /\ pc' = "gather"
    /\ UNCHANGED <<requirements, orch, outcome, after, ends, apart>>

\* Step 1: gather_agent_requirements, validate_requirements and the resource
\* checks, with the handlers of ConversationError and ValidationError and the
\* outer handler of every other exception.
Gather ==
    /\ pc = "gather"
    /\ \/ \E req \in Requirements :
            /\ requirements' = req
            /\ pc' = "knowledge"
            /\ UNCHANGED sess
       \/ \* ConversationError: end_session, raise; the outer handler ends it again
          /\ session' = "failed" /\ ends' = ends + 2
          /\ pc' = "raised"
          /\ UNCHANGED requirements
       \/ \* ValidationError: end_session, return
          /\ session' = "failed" /\ ends' = ends + 1
          /\ pc' = "returned"
          /\ UNCHANGED requirements
       \/ \* any other exception: the outer handler
          /\ session' = "failed" /\ ends' = ends + 1
          /\ pc' = "raised"
          /\ UNCHANGED requirements
    /\ UNCHANGED <<orch, outcome, after, apart>>

\* Step 2: _get_knowledge_context; a failure is logged and the build goes on.
Knowledge ==
    /\ pc = "knowledge"
    /\ pc' = "connect"
    /\ UNCHANGED <<requirements, orch, outcome, after, sess, apart>>

(***************************************************************************)
(* _generate_agent_code_with_fallback: the remote attempt.                 *)
(***************************************************************************)
\* the steps of build_complete_agent after generate_pipecat_agent
LaterSteps == {"optimize", "integrate_knowledge", "generate_deployment",
               "validate_code", "generate_tests"}

\* as after_remote_failure, but a failed enrichment step is passed over
after_remote_failure_enrichment_skipped(step) ==
    IF step \in LaterSteps THEN "extract" ELSE "template"

\* as after_remote_failure, but a refused connection is tried again
after_remote_failure_reconnect(step) ==
    IF step = "connect" THEN "connect" ELSE "template"

\* Where the handlers of the try around the remote attempt lead, for the
\* step that raised: both log a warning and fall through to the templates.
after_remote_failure(step) == "template"

\* An exception inside "async with": __aexit__ disconnects, then the handlers.
GiveUp(step) ==
    /\ websocket' = FALSE
    /\ fail_step' = step
    /\ pc' = after_remote_failure(step)

\* CascadeOrchestrator.__aenter__: connect() returns False on any failure and
\* __aenter__ raises ConnectionError.
Connect ==
    /\ pc = "connect"
    /\ trace' = Append(trace, "connect")
    /\ \/ /\ websocket' = TRUE
          /\ pc' = "generate_code"
          /\ UNCHANGED fail_step
       \/ GiveUp("connect")
    /\ UNCHANGED <<requirements, agent_result, awaiting, template, outcome, after, sess, apart>>

\* the steps of build_complete_agent, each one call of _send_request
RemoteSteps == {"generate_code"} \cup LaterSteps

\* _send_request up to "await self.websocket.recv()": the request is sent and
\* the coroutine is suspended until the collaborator's message arrives; no
\* timeout is set on the wait.
SendRequest ==
    /\ pc \in RemoteSteps
    /\ ~awaiting
    /\ pc = "generate_deployment" => ~agent_result.null
    /\ awaiting' = TRUE
    /\ UNCHANGED <<pc, requirements, websocket, agent_result, trace, fail_step,
                   template, outcome, after, sess, apart>>

\* Step 1 of build_complete_agent: generate_pipecat_agent returns with the
\* collaborator's answer, or raises on it
GenerateCode ==
    /\ pc = "generate_code"
    /\ awaiting
    /\ awaiting' = FALSE
    /\ trace' = Append(trace, "generate_code")
    /\ \/ \E r \in AgentResults(requirements) :
            /\ agent_result' = r
            /\ pc' = "optimize"
            /\ UNCHANGED <<websocket, fail_step>>
       \/ GiveUp("generate_code") /\ UNCHANGED agent_result
    /\ UNCHANGED <<requirements, template, outcome, after, sess, apart>>

\* Step 2: optimize_agent_configuration
Optimize ==
    /\ pc = "optimize"
    /\ awaiting
    /\ awaiting' = FALSE
    /\ trace' = Append(trace, "optimize")
    /\ \/ /\ pc' = IF requirements.knowledge_sources
                   THEN "integrate_knowledge" ELSE "generate_deployment"
          /\ UNCHANGED <<websocket, fail_step>>
       \/ GiveUp("optimize")
    /\ UNCHANGED <<requirements, agent_result, template, outcome, after, sess, apart>>

\* Step 3: create_knowledge_integration, if requirements.knowledge_sources
IntegrateKnowledge ==
    /\ pc = "integrate_knowledge"
    /\ awaiting
    /\ awaiting' = FALSE
    /\ trace' = Append(trace, "integrate_knowledge")
    /\ \/ /\ pc' = "generate_deployment"
          /\ UNCHANGED <<websocket, fail_step>>
       \/ GiveUp("integrate_knowledge")
    /\ UNCHANGED <<requirements, agent_result, template, outcome, after, sess, apart>>

\* Step 4: generate_deployment_config; agent_result.get raises on a null
\* result before the request is sent.
GenerateDeployment ==
    /\ pc = "generate_deployment"
    /\ awaiting' = FALSE
    /\ IF agent_result.null
       THEN GiveUp("generate_deployment") /\ UNCHANGED trace
       ELSE /\ awaiting
            /\ trace' = Append(trace, "generate_deployment")
            /\ \/ /\ pc' = "validate_code"
                  /\ UNCHANGED <<websocket, fail_step>>
               \/ GiveUp("generate_deployment")
    /\ UNCHANGED <<requirements, agent_result, template, outcome, after, sess, apart>>

\* Step 5: validate_generated_code of the collaborator
ValidateCode ==
    /\ pc = "validate_code"
    /\ awaiting
    /\ awaiting' = FALSE
    /\ trace' = Append(trace, "validate_code")
    /\ \/ /\ pc' = "generate_tests"
          /\ UNCHANGED <<websocket, fail_step>>
       \/ GiveUp("validate_code")
    /\ UNCHANGED <<requirements, agent_result, template, outcome, after, sess, apart>>

\* Step 6: generate_test_suite
GenerateTests ==
    /\ pc = "generate_tests"
    /\ awaiting
    /\ awaiting' = FALSE
    /\ trace' = Append(trace, "generate_tests")
    /\ \/ /\ pc' = "extract"
          /\ UNCHANGED <<websocket, fail_step>>
       \/ GiveUp("generate_tests")
    /\ UNCHANGED <<requirements, agent_result, template, outcome, after, sess, apart>>

\* as cascade_verdict, without the check for an empty result
cascade_verdict_unchecked(code_files) == "deliver"

\* What the orchestrator does with the code_files of a completed remote
\* build: "deliver" returns them, "reject" raises CodeGenerationError.
cascade_verdict(code_files) ==
    IF code_files = EmptyFiles THEN "reject" ELSE "deliver"

\* result.get("agent_code", {}).get("code_files", {}); an empty mapping raises
\* CodeGenerationError inside the try, anything else is returned.
Extract ==
    /\ pc = "extract"
    /\ IF cascade_verdict(agent_result.code_files) = "reject"
       THEN GiveUp("empty") /\ UNCHANGED outcome
       ELSE /\ websocket' = FALSE
            /\ generated_files' = agent_result.code_files
            /\ gen' = "returned"
            /\ pc' = "validate"
            /\ UNCHANGED fail_step
    /\ UNCHANGED <<requirements, agent_result, trace, awaiting, template, after, sess, apart>>

(***************************************************************************)
(* _generate_agent_code_with_fallback: the template fallback, and Step 3   *)
(* of build_agent_interactive's handler of CodeGenerationError.            *)
(***************************************************************************)
\* as fallback_verdict, without the check for an empty result
fallback_verdict_unchecked(o) ==
    IF o.exc = "none" THEN "return" ELSE "CodeGenerationError"

\* what the fallback does with the template generator's outcome
fallback_verdict(o) ==
    IF o.exc = "none" /\ o.files # EmptyFiles THEN "return" ELSE "CodeGenerationError"

Template ==
    /\ pc = "template"
    /\ trace' = Append(trace, "template")
    /\ \E o \in TemplateOutcomes(requirements) :
         /\ template' = o
         /\ IF fallback_verdict(o) = "return"
            THEN /\ generated_files' = o.files
                 /\ gen' = "returned"
                 /\ pc' = "validate"
                 /\ UNCHANGED sess
            ELSE \* build_agent_interactive: end_session, return
                 /\ gen' = "CodeGenerationError"
                 /\ session' = "failed" /\ ends' = ends + 1
                 /\ pc' = "returned"
                 /\ UNCHANGED generated_files
    /\ UNCHANGED <<requirements, websocket, agent_result, fail_step, awaiting, after, apart>>

(***************************************************************************)
(* build_agent_interactive after the generation step.                      *)
(***************************************************************************)
\* the elements of a sequence
Range(seq) == {seq[i] : i \in 1..Len(seq)}

\* The validation diagnostics the build writes out: the warning logged when
\* the result is not valid carries validation_result['warnings'].
logged_diagnostics(result) ==
    IF ~result.valid THEN Range(result.warnings) ELSE {}

\* as after_validation, with the build given up on a result that is not valid
after_validation_blocking(result) ==
    IF result.exc = "none" /\ ~result.valid THEN "returned" ELSE "save"

\* Where the build goes after Step 4, for the outcome of the validator's
\* call: every exception is caught and logged.
after_validation(result) == "save"

\* Step 4: validate the generated code.  With exc other than "none" the
\* validator raised: validation_result stays unbound in the code and the
\* record kept here only remembers the exception that was logged.
Validate ==
    /\ pc = "validate"
    /\ LET result == validate_generated_code(generated_files)
       IN  /\ validation_result' = result
           /\ reported' = IF result.exc = "none"
                          THEN reported \cup logged_diagnostics(result)
                          ELSE reported
           /\ pc' = after_validation(result)
    /\ UNCHANGED <<requirements, orch, outcome, fs, agent_dir, save_calls, deployed,
                   sess, apart>>

\* Step 5: save the generated files.  mkdir or a write may fail; the handler
\* ends the session and raises, and the outer handler ends it again.
Save ==
    /\ pc = "save"
    /\ save_calls' = save_calls + 1
    /\ LET dir == agent_name(requirements.name)
       IN  \/ /\ fs' = save_generated_files(fs, dir, generated_files, DOMAIN generated_files)
              /\ agent_dir' = dir
              /\ pc' = "deploy"
              /\ UNCHANGED sess
           \/ \* mkdir fails
              /\ session' = "failed" /\ ends' = ends + 2
              /\ pc' = "raised"
              /\ UNCHANGED <<fs, agent_dir>>
           \/ \* open or write fails after k files
              \E k \in 0..(Len(items(generated_files)) - 1) :
                /\ fs' = save_generated_files(fs, dir, generated_files,
                                              first_written(generated_files, k))
                /\ session' = "failed" /\ ends' = ends + 2
                /\ pc' = "raised"
                /\ UNCHANGED agent_dir
    /\ UNCHANGED <<requirements, orch, outcome, validation_result, reported, deployed,
                   apart>>

\* Step 6: the optional deployment; a DeploymentError is printed and the
\* build goes on.
Deploy ==
    /\ pc = "deploy"
    /\ \E choice \in BOOLEAN, success \in BOOLEAN :
         deployed' = (choice /\ success)
    /\ pc' = "summary"
    /\ UNCHANGED <<requirements, orch, outcome, validation_result, reported, fs,
                   agent_dir, save_calls, sess, apart>>

\* Step 7: the summary, then end_session(session_id, "completed")
Summary ==
    /\ pc = "summary"
    /\ session' = "completed" /\ ends' = ends + 1
    /\ pc' = "done"
    /\ UNCHANGED <<requirements, orch, outcome, after, apart>>

Next ==
    \/ StartBuild
    \/ Gather
    \/ Knowledge
    \/ Connect
    \/ SendRequest
    \/ GenerateCode
    \/ Optimize
    \/ IntegrateKnowledge
    \/ GenerateDeployment
    \/ ValidateCode
    \/ GenerateTests
    \/ Extract
    \/ Template
    \/ Validate
    \/ Save
    \/ Deploy
    \/ Summary

Spec == Init /\ [][Next]_vars

(***************************************************************************)
(* The build with the wait for the collaborator's message cancelled.       *)
(***************************************************************************)
\* The handlers of the try around the remote attempt, "except
\* MCPConnectionError" and "except Exception", catch every Exception;
\* asyncio.CancelledError derives from BaseException.
caught_by_fallback(exception) == exception # "CancelledError"

\* Where an exception raised inside the remote attempt leads: to the template
\* fallback if a handler catches it, out of _generate_agent_code_with_fallback
\* and, past "except KeyboardInterrupt" and "except Exception", out of
\* build_agent_interactive if none does.
after_remote_exception(exception) ==
    IF caught_by_fallback(exception) THEN "template" ELSE "raised"

\* The wait of _send_request is cancelled (the awaited future is cancelled
\* while the build's caller has not cancelled the build): recv() raises
\* asyncio.CancelledError, __aexit__ disconnects, no handler matches and no
\* end_session is reached.
CancelRemote ==
    /\ pc \in RemoteSteps
    /\ awaiting
    /\ awaiting' = FALSE
    /\ websocket' = FALSE
    /\ fail_step' = "cancelled"
    /\ pc' = after_remote_exception("CancelledError")
    /\ gen' = IF caught_by_fallback("CancelledError") THEN gen ELSE "CancelledError"
    /\ UNCHANGED <<requirements, agent_result, trace, template, generated_files,
                   after, sess, apart>>

NextCancel == Next \/ CancelRemote

SpecCancel == Init /\ [][NextCancel]_vars

(***************************************************************************)
(* Direct calls of _validate_generated_code on arbitrary file sets.        *)
(***************************************************************************)
\* The file sets given to the validator: any subset of four of the file
\* names, any text in bot.py and any text that is not Python in the others.
ValFileSets ==
    LET names  == FileNames \ {"knowledge_processor.py"}
        python == {c \in Contents : c.ver = "v1"}
        plain  == {c \in Contents : c.ver = "v1" /\ c.syntax = "SyntaxError"}
    IN  { [n \in S |-> CASE n = "bot.py" -> b
                         [] n = "requirements.txt" -> r
                         [] n = "Dockerfile" -> d
                         [] OTHER -> PlainText({}, "v1")] :
          S \in SUBSET names, b \in python, r \in plain, d \in plain }

InitValidate ==
    /\ InitBuild
    /\ settings = DefaultKeys
    /\ requirements = NoRequirements
    /\ vin \in ValFileSets

CallValidate ==
    /\ vout.exc = "unbound"
    /\ vout' = validate_generated_code(vin)
    /\ UNCHANGED <<pc, requirements, orch, outcome, after, sess, vin, saves, cloud, web, later>>

NextValidate == CallValidate

SpecValidate == InitValidate /\ [][NextValidate]_vars

(***************************************************************************)
(* Direct calls of _save_generated_files, one after the other.             *)
(***************************************************************************)
\* the file sets saved: what the template generator returns, and a remote
\* result without an entry point
SaveFileSets ==
    UNION { {generate_agent_files(req),
             [n \in {"requirements.txt", "Dockerfile"} |->
                 PlainText({"pipecat", "pipecat-ai"}, req.ver)]} :
            req \in Requirements }

\* One call save(requirements, fileSet): it returns the directory, or fails
\* at mkdir or after writing some of the files (agent_dir is then <<>>).
CallSave ==
    /\ saves < MaxSaves
    /\ saves' = saves + 1
    /\ \E name \in Names, files \in SaveFileSets :
         LET dir == agent_name(name)
         IN  /\ requirements' = [NoRequirements EXCEPT !.name = name]
             /\ generated_files' = files
             /\ \/ /\ fs' = save_generated_files(fs, dir, files, DOMAIN files)
                   /\ agent_dir' = dir
                \/ /\ agent_dir' = NoDir
                   /\ UNCHANGED fs
                \/ \E k \in 0..(Len(items(files)) - 1) :
                     /\ fs' = save_generated_files(fs, dir, files, first_written(files, k))
                     /\ agent_dir' = NoDir
    /\ UNCHANGED <<pc, orch, gen, validation_result, reported, save_calls, deployed,
                   sess, vin, vout, cloud, web, later>>

NextSave == CallSave

SpecSave == Init /\ [][NextSave]_vars

(***************************************************************************)
(* Direct calls of the template generator on any requirements.             *)
(***************************************************************************)
\* the channel lists of a request: none, web, phone, both
ChannelSets == SUBSET {"web", "phone"}

\* the integration lists of a request: none, one with a known package, one without
IntegrationSets == { {}, {"twilio"}, {"acme"} }

\* valid requirements, from the minimal ones to those with every field set
AllRequirements ==
    { [name |-> n, knowledge_sources |-> k, ver |-> "v1",
       stt_service |-> stt, llm_service |-> llm, tts_service |-> tts,
       channels |-> ch, multilingual |-> ml, integrations |-> int] :
      n \in Names, k \in BOOLEAN,
      stt \in ServiceChoices("stt"), llm \in ServiceChoices("llm"),
      tts \in ServiceChoices("tts"), ch \in ChannelSets, ml \in BOOLEAN,
      int \in IntegrationSets }

InitTemplate ==
    /\ InitBuild
    /\ settings = DefaultKeys
    /\ vin = EmptyFiles
    /\ requirements \in AllRequirements

\* generate_agent_files(requirements) is called and returns
CallGenerate ==
    /\ template.exc = "uncalled"
    /\ \E f \in TemplateResults(requirements) :
         /\ template' = [exc |-> "none", files |-> f]
         /\ generated_files' = f
    /\ gen' = "returned"
    /\ UNCHANGED <<pc, requirements, websocket, agent_result, trace, fail_step,
                   awaiting, after, sess, apart>>

NextTemplate == CallGenerate

SpecTemplate == InitTemplate /\ [][NextTemplate]_vars

(***************************************************************************)
(* The web application: requests to /api/build-agent served by one shared  *)
(* SimplePipecatAgentBuilder on one event loop.                            *)
(***************************************************************************)
\* as writes_until_suspension, for a sink that awaits every single write
writes_until_suspension_one_file(files) == 1

\* How many files _save_files writes before the coroutine can be suspended:
\* the loop over generated_files.items() holds no await, so all of them.
writes_until_suspension(files) == Len(items(files))

\* The endpoint builds the requirements and calls builder.build_agent, which
\* is suspended in _get_knowledge_context, at "await self.vectorizer.search".
Submit(p) ==
    /\ bpc[p] = "idle"
    /\ \E req \in Requirements : breq' = [breq EXCEPT ![p] = req]
    /\ bpc' = [bpc EXCEPT ![p] = "knowledge"]
    /\ overlapped' = (overlapped \/ \E q \in Builds \ {p} : bpc[q] \in {"knowledge", "saving"})
    /\ UNCHANGED <<pc, requirements, orch, outcome, after, sess, direct, cloud, later,
                   bfiles, bwritten, last_saver>>

\* The coroutine of request p runs until it is suspended again or ends.
\* Resumed after the knowledge search, it calls the template generator (an
\* exception of it is raised again) and _save_files; _save_files makes the
\* directory and writes files until it is suspended or has written them all,
\* then returns, and the endpoint answers.  mkdir, open or write may fail.
RunBuild(p) ==
    /\ bpc[p] \in {"knowledge", "saving"}
    /\ \E o \in IF bpc[p] = "knowledge"
                 THEN TemplateOutcomes(breq[p])
                 ELSE {[exc |-> "none", files |-> bfiles[p]]} :
         IF o.exc # "none"
         THEN /\ bpc' = [bpc EXCEPT ![p] = "failed"]
              /\ UNCHANGED <<fs, bfiles, bwritten, last_saver>>
         ELSE LET dir   == agent_name(breq[p].name)
                  total == Len(items(o.files))
                  upto  == IF bwritten[p] + writes_until_suspension(o.files) < total
                           THEN bwritten[p] + writes_until_suspension(o.files)
                           ELSE total
                  chunk == first_written(o.files, upto) \ first_written(o.files, bwritten[p])
              IN  /\ bfiles' = [bfiles EXCEPT ![p] = o.files]
                  /\ \/ /\ fs' = save_generated_files(fs, dir, o.files, chunk)
                        /\ bwritten' = [bwritten EXCEPT ![p] = upto]
                        /\ bpc' = [bpc EXCEPT ![p] = IF upto = total THEN "done" ELSE "saving"]
                        /\ last_saver' = IF upto = total THEN p ELSE last_saver
                     \/ \* mkdir fails
                        /\ bpc' = [bpc EXCEPT ![p] = "failed"]
                        /\ UNCHANGED <<fs, bwritten, last_saver>>
                     \/ \* open or write fails after k more files
                        \E k \in 0..(upto - bwritten[p] - 1) :
                          /\ fs' = save_generated_files(fs, dir, o.files,
                                      first_written(o.files, bwritten[p] + k)
                                          \ first_written(o.files, bwritten[p]))
                          /\ bwritten' = [bwritten EXCEPT ![p] = bwritten[p] + k]
                          /\ bpc' = [bpc EXCEPT ![p] = "failed"]
                          /\ UNCHANGED last_saver
    /\ UNCHANGED <<pc, requirements, orch, outcome, validation_result, reported,
                   agent_dir, save_calls, deployed, sess, direct, cloud, later,
                   breq, overlapped>>

NextWeb == \E p \in Builds : Submit(p) \/ RunBuild(p)

SpecWeb == Init /\ [][NextWeb]_vars

(***************************************************************************)
(* PipecatCloudDeployer.deploy_agent, one deployment after the other.      *)
(***************************************************************************)
\* the agent names deployed: with a space, a hyphen, an underscore, both, none
DeployNames == Names \cup { <<"a", "_", "b">>, <<"A", " ", "b", "_", "c">> }

\* name.lower().replace(' ', '-').replace('_', '-'), the agent identifier of
\* _build_docker_image and _deploy_to_cloud
cloud_agent_name(name) ==
    [i \in 1..Len(name) |->
        LET ch == lower(name[i]) IN IF ch \in {" ", "_"} THEN "-" ELSE ch]

\* f"{requirements.name.lower().replace(' ', '-')}-secrets" of _upload_secrets
upload_secret_set_name(name) ==
    [i \in 1..Len(name) |->
        LET ch == lower(name[i]) IN IF ch = " " THEN "-" ELSE ch] \o <<"-secrets">>

\* f"{agent_name}-secrets" of _deploy_to_cloud
deploy_secret_set_name(name) == cloud_agent_name(name) \o <<"-secrets">>

\* the deployment_config of _deploy_to_cloud
config(name, tag) ==
    [agent_name |-> cloud_agent_name(name), image |-> tag,
     secret_set |-> deploy_secret_set_name(name)]

\* deploy_agent is entered for the requirements of this name; _init_docker
\* succeeds, or raises and the deployment has failed
BeginDeploy(name, key) ==
    /\ dname' = name
    /\ api_key' = key
    /\ image_tag' = NoTag
    /\ uploaded' = <<>>
    /\ deployment_config' = NoConfig
    /\ \/ dpc' = "build" /\ dstatus' = "none"
       \/ dpc' = "done" /\ dstatus' = "failed"

\* deploy_agent is called
StartDeploy ==
    /\ dpc \in {"idle", "done"}
    /\ \E name \in DeployNames, key \in BOOLEAN : BeginDeploy(name, key)
    /\ UNCHANGED <<pc, requirements, orch, outcome, after, sess, direct, web, later>>

\* settings.docker_hub_username as the f-string renders it: it is optional
DockerHubUsernames == {"user", "None"}

\* _build_docker_image returns the tag
\* f"{settings.docker_hub_username}/{agent_name}:latest", or raises
BuildImage ==
    /\ dpc = "build"
    /\ \/ /\ \E u \in DockerHubUsernames :
               image_tag' = [user |-> u, agent |-> cloud_agent_name(dname)]
          /\ dpc' = "push"
          /\ UNCHANGED dstatus
       \/ /\ dpc' = "done"
          /\ dstatus' = "failed"
          /\ UNCHANGED image_tag
    /\ UNCHANGED <<pc, requirements, orch, outcome, after, sess, direct, web, later,
                   dname, api_key, uploaded, deployment_config>>

\* _push_docker_image returns, or raises
PushImage ==
    /\ dpc = "push"
    /\ \/ dpc' = "secrets" /\ UNCHANGED dstatus
       \/ dpc' = "done" /\ dstatus' = "failed"
    /\ UNCHANGED <<pc, requirements, orch, outcome, after, sess, direct, web, later,
                   dname, api_key, image_tag, uploaded, deployment_config>>

\* _upload_secrets: skipped without an API key; otherwise the secrets are
\* posted under the secret set name, and a failure is only logged
UploadSecrets ==
    /\ dpc = "secrets"
    /\ dpc' = "deploy"
    /\ IF ~api_key
         THEN UNCHANGED uploaded
         ELSE \/ uploaded' = upload_secret_set_name(dname)
              \/ UNCHANGED uploaded
    /\ UNCHANGED <<pc, requirements, orch, outcome, after, sess, direct, web, later,
                   dname, api_key, image_tag, deployment_config, dstatus>>

\* _deploy_to_cloud: raises without an API key; otherwise the config is
\* posted and the cloud accepts it or not
DeployToCloud ==
    /\ dpc = "deploy"
    /\ dpc' = "done"
    /\ IF ~api_key
         THEN dstatus' = "failed" /\ UNCHANGED deployment_config
         ELSE /\ deployment_config' = config(dname, image_tag)
              /\ dstatus' \in {"success", "failed"}
    /\ UNCHANGED <<pc, requirements, orch, outcome, after, sess, direct, web, later,
                   dname, api_key, image_tag, uploaded>>

NextDeploy ==
    \/ StartDeploy
    \/ BuildImage
    \/ PushImage
    \/ UploadSecrets
    \/ DeployToCloud

SpecDeploy == Init /\ [][NextDeploy]_vars

(***************************************************************************)
(* PipecatAgentBuilder.initialize (SpecInit).                              *)
(***************************************************************************)
\* max_retries of _initialize_vectorizer_with_retry
VectorizerMaxRetries == 3

\* the chunk counts get_stats may report
ChunkCounts == {0, 5}

\* no stats were read in the attempt
NoStats == -1

\* one attempt of the loop: the chunk count read, whether the documentation
\* was vectorized in it, and whether it succeeded
AttemptEvent(n, c, v, o) ==
    [kind |-> "attempt", n |-> n, chunks |-> c, vectorized |-> v, ok |-> o]

\* one asyncio.sleep of the loop
SleepEvent(secs) ==
    [kind |-> "sleep", n |-> secs, chunks |-> NoStats, vectorized |-> FALSE, ok |-> FALSE]

\* the except clause of initialize: every Exception leaves as ConfigurationError
initialize_raises(e) == "ConfigurationError"

\* the handler of the loop never takes an attempt for the last
last_attempt_never(a, max_retries) == FALSE

\* the handler of the loop raises at this attempt instead of sleeping
last_attempt(a, max_retries) == a = max_retries - 1

\* the seconds slept after a failed attempt
backoff(a) == 2 ^ a

\* _validate_configuration, called from initialize: the keys are validated,
\* the required directories created and the documentation path checked
ValidateConfiguration ==
    /\ ipc = "start"
    /\ key_status' = validate_api_keys(settings)
    /\ IF missing_keys(key_status') # {}
         THEN /\ cause' = "APIKeyError"
              /\ init_exc' = initialize_raises(cause')
              /\ ipc' = "raised"
         ELSE \E dirs_ok, docs_ok \in BOOLEAN :
                IF dirs_ok /\ docs_ok
                  THEN ipc' = "vectorizer" /\ UNCHANGED <<cause, init_exc>>
                  ELSE /\ cause' = "ConfigurationError"
                       /\ init_exc' = initialize_raises(cause')
                       /\ ipc' = "raised"
    /\ UNCHANGED <<first, vals, metrics, retry, conv, settings, attempt, vtrace, vec_exc>>

\* one iteration of the loop of _initialize_vectorizer_with_retry: the
\* vectorizer is constructed and its stats read, the documentation is
\* vectorized when there are no chunks; an exception of any of these is
\* handled by raising at the last attempt and by sleeping otherwise
AttemptVectorizer ==
    /\ ipc = "vectorizer"
    /\ attempt < VectorizerMaxRetries
    /\ \E c \in ChunkCounts \cup {NoStats}, ok \in BOOLEAN :
         /\ (c = NoStats) => ~ok
         /\ (c \in ChunkCounts /\ c # 0) => ok
         /\ vtrace' = Append(vtrace, AttemptEvent(attempt, c, c = 0, ok))
         /\ IF ok
              THEN ipc' = "health" /\ UNCHANGED <<cause, init_exc, vec_exc>>
              ELSE IF last_attempt(attempt, VectorizerMaxRetries)
                     THEN /\ vec_exc' = "VectorizationError"
                          /\ cause' = vec_exc'
                          /\ init_exc' = initialize_raises(cause')
                          /\ ipc' = "raised"
                     ELSE ipc' = "sleep" /\ UNCHANGED <<cause, init_exc, vec_exc>>
    /\ UNCHANGED <<first, vals, metrics, retry, conv, settings, key_status, attempt>>

\* await asyncio.sleep(2 ** attempt) returns and the loop goes on
Backoff ==
    /\ ipc = "sleep"
    /\ vtrace' = Append(vtrace, SleepEvent(backoff(attempt)))
    /\ attempt' = attempt + 1
    /\ ipc' = "vectorizer"
    /\ UNCHANGED <<first, vals, metrics, retry, conv, settings, key_status, cause, init_exc, vec_exc>>

\* the monitoring task is created and the health checks run; failed checks
\* are only logged
HealthCheck ==
    /\ ipc = "health"
    /\ ipc' = "initialized"
    /\ UNCHANGED <<first, vals, metrics, retry, conv, settings, key_status, cause, init_exc, attempt, vtrace, vec_exc>>

InitInit ==
    /\ InitBuild
    /\ requirements = NoRequirements
    /\ vin = EmptyFiles
    /\ settings \in AllKeys

NextInit ==
    \/ ValidateConfiguration
    \/ AttemptVectorizer
    \/ Backoff
    \/ HealthCheck

\* the event loop runs the coroutine on, and a sleep returns
SpecInit == InitInit /\ [][NextInit]_vars /\ WF_vars(NextInit)

(***************************************************************************)
(* Direct calls of the requirements validator (SpecRequirements).          *)
(***************************************************************************)
\* one call validate_requirements(requirements)
ValidateRequirements ==
    /\ rout = NotCalled
    /\ \E r \in RequirementInputs :
         /\ rin' = r
         /\ rout' = validate_requirements(r)
    /\ UNCHANGED <<first, boot, metrics, retry, conv, din, dout, nin, nout>>

\* one call _validate_deployment_config(deployment)
ValidateDeployment ==
    /\ dout = "unchecked"
    /\ \E d \in DeploymentInputs :
         /\ din' = d
         /\ dout' = validate_deployment_config(d)
    /\ UNCHANGED <<first, boot, metrics, retry, conv, rin, rout, nin, nout>>

NextRequirements ==
    \/ ValidateRequirements
    \/ ValidateDeployment

SpecRequirements == Init /\ [][NextRequirements]_vars

(***************************************************************************)
(* A validated name and the directory saved to (SpecPath).                 *)
(***************************************************************************)
\* one call validate_agent_name(name)
ValidateName ==
    /\ nout = NoName
    /\ \E name \in NameInputs :
         /\ nin' = name
         /\ nout' = validate_agent_name(name)
    /\ UNCHANGED <<first, boot, metrics, retry, conv, rin, rout, din, dout>>

\* _save_generated_files for requirements of the validated name: the
\* directory is made below output_path by its name and the files are written
SaveNamed ==
    /\ nout.exc = "none"
    /\ agent_dir = NoDir
    /\ \E files \in SaveFileSets :
         LET dir == agent_name(nout.name)
         IN  /\ requirements' = [NoRequirements EXCEPT !.name = nout.name]
             /\ generated_files' = files
             /\ fs' = save_generated_files(fs, dir, files, DOMAIN files)
             /\ agent_dir' = dir
    /\ UNCHANGED <<pc, orch, gen, validation_result, reported, save_calls, deployed,
                   sess, direct, cloud, web, later>>

NextPath ==
    \/ ValidateName
    \/ SaveNamed

SpecPath == Init /\ [][NextPath]_vars

(***************************************************************************)
(* Calls of the metrics collector (SpecSessions).                          *)
(***************************************************************************)
\* start_session(id) at the time of the clock
StartSession ==
    /\ clock < MaxCalls
    /\ \E id \in SessionIds :
         /\ sessions' = start_session(sessions, id, clock + 1)
         /\ started' = started \cup {id}
         /\ last_call' = [op |-> "start", id |-> id, status |-> ""]
    /\ before' = sessions
    /\ clock' = clock + 1
    /\ UNCHANGED <<first, boot, vals, retry, conv, stats>>

\* end_session(id, status) at the time of the clock
EndSession ==
    /\ clock < MaxCalls
    /\ \E id \in SessionIds, status \in EndStatuses :
         /\ sessions' = end_session(sessions, id, status, clock + 1)
         /\ last_call' = [op |-> "end", id |-> id, status |-> status]
    /\ before' = sessions
    /\ clock' = clock + 1
    /\ UNCHANGED <<first, boot, vals, retry, conv, started, stats>>

\* get_session_stats()
GetSessionStats ==
    /\ clock < MaxCalls
    /\ stats' = get_session_stats(sessions)
    /\ last_call' = [op |-> "stats", id |-> "", status |-> ""]
    /\ before' = sessions
    /\ clock' = clock + 1
    /\ UNCHANGED <<first, boot, vals, retry, conv, sessions, started>>

NextSessions ==
    \/ StartSession
    \/ EndSession
    \/ GetSessionStats

SpecSessions == Init /\ [][NextSessions]_vars

(***************************************************************************)
(* _deploy_agent_with_retry (SpecRetry).                                   *)
(***************************************************************************)
\* max_retries of _deploy_agent_with_retry
DeployMaxRetries == 2

\* the seconds slept between two attempts
RetryDelay == 5

\* one call of deploy_agent and the status of its result
CallEvent(n, status) == [kind |-> "call", n |-> n, status |-> status]

\* one asyncio.sleep of the loop
DelayEvent(secs) == [kind |-> "sleep", n |-> secs, status |-> ""]

\* as deploy_returned, with every result returned
deploy_returned_always(status) == TRUE

\* deployment_result.get("status") == "success": the result is returned
deploy_returned(status) == status = "success"

\* the handler raises DeploymentError at this attempt instead of sleeping
last_deploy_attempt(a, max_retries) == a = max_retries - 1

\* the loop calls deployer.deploy_agent(requirements, agent_dir)
RetryCall ==
    /\ rpc = "loop"
    /\ dattempt < DeployMaxRetries
    /\ IF dattempt = 0
         THEN \E name \in DeployNames, key \in BOOLEAN : BeginDeploy(name, key)
         ELSE BeginDeploy(dname, api_key)
    /\ rpc' = "calling"
    /\ UNCHANGED <<pc, requirements, orch, outcome, after, sess, direct, web,
                   boot, vals, metrics, conv, dattempt, dtrace, dresult, dexc>>

\* deploy_agent has returned: a result of status "success" is returned, any
\* other raises DeploymentError inside the try, and the handler raises
\* DeploymentError at the last attempt and sleeps otherwise
RetryResult ==
    /\ rpc = "calling"
    /\ dpc = "done"
    /\ dtrace' = Append(dtrace, CallEvent(dattempt, dstatus))
    /\ IF deploy_returned(dstatus)
         THEN /\ dresult' = dstatus
              /\ rpc' = "returned"
              /\ UNCHANGED dexc
         ELSE IF last_deploy_attempt(dattempt, DeployMaxRetries)
                THEN /\ dexc' = "DeploymentError"
                     /\ rpc' = "raised"
                     /\ UNCHANGED dresult
                ELSE /\ rpc' = "sleep"
                     /\ UNCHANGED <<dresult, dexc>>
    /\ UNCHANGED <<first, boot, vals, metrics, conv, dattempt>>

\* await asyncio.sleep(5) returns and the loop goes on
RetrySleep ==
    /\ rpc = "sleep"
    /\ dtrace' = Append(dtrace, DelayEvent(RetryDelay))
    /\ dattempt' = dattempt + 1
    /\ rpc' = "loop"
    /\ UNCHANGED <<first, boot, vals, metrics, conv, dresult, dexc>>

NextRetry ==
    \/ RetryCall
    \/ BuildImage
    \/ PushImage
    \/ UploadSecrets
    \/ DeployToCloud
    \/ RetryResult
    \/ RetrySleep

SpecRetry == Init /\ [][NextRetry]_vars

(***************************************************************************)
(* The requirements-gathering conversation (SpecConversation).             *)
(***************************************************************************)
\* process_frame for a TranscriptionFrame going downstream:
\* _process_user_input(frame.text) records the input and runs the
\* extraction of the current state
ProcessUserInput ==
    /\ cpc = "running"
    /\ Len(conversation_history) < MaxInputs
    /\ \E text \in Texts :
         /\ conversation_history' =
               Append(conversation_history, [state |-> progress_state, user_input |-> text])
         /\ progress' = process_user_input(progress_state, progress, text)
    /\ progress_state' = state_after_input(progress_state)
    /\ UNCHANGED <<first, boot, vals, metrics, retry, cpc, gathered>>

\* runner.run(task) returns and start_conversation returns
\* get_current_requirements()
EndConversation ==
    /\ cpc = "running"
    /\ gathered' = progress
    /\ cpc' = "returned"
    /\ UNCHANGED <<first, boot, vals, metrics, retry, progress_state, progress,
                   conversation_history>>

NextConversation ==
    \/ ProcessUserInput
    \/ EndConversation

SpecConversation == Init /\ [][NextConversation]_vars

(***************************************************************************)
(* The generation orchestrator (checked under Spec).                       *)
(***************************************************************************)
\* the remote attempt raised, or ended with an empty code_files
RemoteFailed == fail_step # None

\* the template generator was called and its call is over
FallbackRan == template.exc # "uncalled"

\* _generate_agent_code_with_fallback returned or raised
GenerationOver == gen # "pending"

InvalidFiles(f) == "bot.py" \notin DOMAIN f \/ ast_parse(f["bot.py"]) # "ok"

Count(e, seq) == Cardinality({i \in 1..Len(seq) : seq[i] = e})

\* the call of the validator is over
Validated == vout.exc # "unbound"

BotPresent == "bot.py" \in DOMAIN vin

\* C5 as stated: for every file set the errors recorded are exactly one
\* error naming each required file that is missing, and exactly one syntax
\* error iff bot.py is present and does not parse; a set without bot.py is
\* not valid, a complete set with a parseable bot.py is valid with no errors.
\* It fails on a bot.py for which ast.parse raises something other than
\* SyntaxError: nothing is recorded, the exception leaves the function.
C5_ErrorsAreExactlyTheFindings ==
    Validated =>
        /\ \A i \in 1..Len(required_files) :
              Count(MissingFileError(required_files[i]), vout.errors)
                  = IF required_files[i] \in DOMAIN vin THEN 0 ELSE 1
        /\ Count(SyntaxErrorInBot, vout.errors)
              = IF BotPresent /\ ast_parse(vin["bot.py"]) # "ok" THEN 1 ELSE 0
        /\ Len(vout.errors)
              = Cardinality({i \in 1..Len(required_files) :
                                required_files[i] \notin DOMAIN vin})
                + Count(SyntaxErrorInBot, vout.errors)
        /\ ~BotPresent =>
              ~vout.valid /\ MissingFileError("bot.py") \in Range(vout.errors)
        /\ ({"bot.py", "requirements.txt", "Dockerfile"} \subseteq DOMAIN vin
            /\ ast_parse(vin["bot.py"]) = "ok") =>
              vout.valid /\ vout.errors = <<>>

\* the file set with every substring the validator looks for in every file
WithAllTokens(files) ==
    [n \in DOMAIN files |-> [files[n] EXCEPT !.tokens = Tokens]]

\* C6: in every result valid is false iff errors is non-empty; a missing
\* import and a missing pipecat-ai dependency are recorded in warnings, never
\* in errors, and valid is what it is for the same files without these
\* findings.
C6_ValidIffNoErrors ==
    vout.exc = "none" =>
        /\ vout.valid <=> (vout.errors = <<>>)
        /\ \A e \in Range(vout.errors) :
              e.msg \in {"Missing required file", "Syntax error in bot.py"}
        /\ \A i \in 1..Len(required_imports) :
              (BotPresent /\ ~Contains(vin["bot.py"], required_imports[i]))
                  <=> MissingImportWarning(required_imports[i]) \in Range(vout.warnings)
        /\ ("requirements.txt" \in DOMAIN vin
            /\ ~Contains(vin["requirements.txt"], "pipecat-ai"))
              <=> MissingDependencyWarning \in Range(vout.warnings)
        /\ vout.valid = validate_generated_code(WithAllTokens(vin)).valid

\* C6's case: a result with all three kinds of warnings that is valid
C6_Witness ==
    /\ vout.exc = "none"
    /\ vout.valid
    /\ Len(vout.warnings) = 3

\* C7 as stated: the validator never raises, and a bot.py that does not
\* parse becomes an entry in errors.  Only SyntaxError is caught.
C7_ValidatorNeverRaises ==
    /\ vout.exc \in {"unbound", "none"}
    /\ (Validated /\ BotPresent /\ ast_parse(vin["bot.py"]) # "ok")
          => SyntaxErrorInBot \in Range(vout.errors)

(***************************************************************************)
(* The build after the generation step (checked under Spec).               *)
(***************************************************************************)
\* build_agent_interactive has returned or raised
BuildOver == pc \in {"done", "returned", "raised"}

\* C8: once the generation step has returned a file set, the save step is
\* executed whatever the validation did: it returned valid, returned not
\* valid, or raised.
C8_SaveFollowsGeneration ==
    /\ (gen = "returned" /\ validation_result.exc # "unbound")
          => (pc = "save" \/ save_calls = 1)
    /\ (gen = "returned" /\ BuildOver) => save_calls = 1

\* C8's case: the files were written although the validation found errors
C8_Witness ==
    /\ validation_result.exc = "none"
    /\ ~validation_result.valid
    /\ save_calls = 1
    /\ agent_dir # NoDir
    /\ DOMAIN fs[agent_dir] = DOMAIN generated_files

\* C9 as stated: a completed build has reported every warning of a valid
\* validation result and every error of one that is not valid.  The build
\* logs the warnings, and only when the result is not valid.
C9_DiagnosticsAreReported ==
    (pc = "done" /\ validation_result.exc = "none") =>
        IF validation_result.valid
        THEN Range(validation_result.warnings) \subseteq reported
        ELSE Range(validation_result.errors) \subseteq reported

(***************************************************************************)
(* The agent directory (checked under SpecSave).                           *)
(***************************************************************************)
\* the latest call of _save_generated_files returned
Saved == agent_dir # NoDir

\* C10 as stated: after any sequence of saves the directory written by the
\* latest save holds exactly the keys of its file set.  Files of an earlier
\* save into the same directory are never removed.
C10_DirectoryHoldsExactlyTheKeys ==
    Saved => DOMAIN fs[agent_dir] = DOMAIN generated_files

C12_OneCanonicalSlug ==
    (dstatus = "success" /\ uploaded # <<>>)
        => /\ deployment_config.secret_set = uploaded
           /\ deployment_config.image.agent = deployment_config.agent_name

(***************************************************************************)
(* The wait for the collaborator (checked under Spec and SpecCancel).      *)
(***************************************************************************)
\* the steps the build takes without a message of the collaborator
OwnStep ==
    \/ StartBuild \/ Gather \/ Knowledge \/ Connect \/ SendRequest \/ Extract
    \/ Template \/ Validate \/ Save \/ Deploy \/ Summary

RemoteCancelled == fail_step = "cancelled"

BothCompleted == \A p \in Builds : bpc[p] = "done"

\* both requests derive the same directory
SameSlug == agent_name(breq[1].name) = agent_name(breq[2].name)

\* C15: once two builds of the same derived name have completed, every file
\* named in the file set of the build that saved last holds that build's
\* content; nothing but the scheduling of the coroutines orders the writes.
C15_LastSaverWins ==
    (BothCompleted /\ SameSlug) =>
        \A n \in DOMAIN bfiles[last_saver] :
            /\ n \in DOMAIN fs[agent_name(breq[last_saver].name)]
            /\ fs[agent_name(breq[last_saver].name)][n] = bfiles[last_saver][n]

\* two builds of the same derived name and of different content were in
\* flight at the same time, and the one submitted first saved last
C15_Witness ==
    /\ BothCompleted
    /\ SameSlug
    /\ overlapped
    /\ last_saver = 1
    /\ breq[1].name # breq[2].name
    /\ "bot.py" \in DOMAIN bfiles[1] \cap DOMAIN bfiles[2]
    /\ bfiles[1]["bot.py"] # bfiles[2]["bot.py"]
    /\ "knowledge_processor.py" \in DOMAIN bfiles[2] \ DOMAIN bfiles[1]

(***************************************************************************)
(* Builds of different agents (checked under SpecWeb).                     *)
(***************************************************************************)
\* the directory of a request's build
DirOf(p) == agent_name(breq[p].name)

\* the directory of a completed build holds every file of it as generated
Intact(p) ==
    /\ DirOf(p) \in DOMAIN fs
    /\ \A n \in DOMAIN bfiles[p] :
          n \in DOMAIN fs[DirOf(p)] /\ fs[DirOf(p)][n] = bfiles[p][n]

Generated == template.exc = "none"

\* what the requirements say for a slot
ChoiceOf(req, slot) ==
    CASE slot = "stt" -> req.stt_service
      [] slot = "llm" -> req.llm_service
      [] slot = "tts" -> req.tts_service

\* the blocks of a text that fill a slot
BlocksOf(text, slot) == SelectSeq(text.blocks, LAMBDA b : b.slot = slot)

\* the keys required of every generated file set
RequiredKeys == {"bot.py", "requirements.txt", "Dockerfile", "pcc-deploy.toml"}

\* C17 as stated: the generator returns a file set whose keys are exactly
\* bot.py, requirements.txt, Dockerfile and pcc-deploy.toml, plus
\* knowledge_processor.py iff knowledge_sources is non-empty.
C17_ExactlyTheRequiredKeys ==
    Generated =>
        DOMAIN generated_files =
            RequiredKeys
            \cup (IF requirements.knowledge_sources
                  THEN {"knowledge_processor.py"} ELSE {})

\* C17 amended: the keys include the four required ones, include
\* knowledge_processor.py iff knowledge_sources is non-empty, and hold nothing
\* else but, possibly, the environment-variable template.
C17_RequiredKeysAndEnvTemplate ==
    Generated =>
        /\ RequiredKeys \subseteq DOMAIN generated_files
        /\ "knowledge_processor.py" \in DOMAIN generated_files
             <=> requirements.knowledge_sources
        /\ DOMAIN generated_files \subseteq
             RequiredKeys \cup {"knowledge_processor.py", EnvTemplate}

\* the generator returned for requirements with every optional field set,
\* with the environment-variable template
C17_Witness ==
    /\ Generated
    /\ requirements.knowledge_sources
    /\ \A slot \in Slots : ChoiceOf(requirements, slot) \in KnownProviders(slot)
    /\ requirements.channels = {"web", "phone"}
    /\ requirements.multilingual
    /\ requirements.integrations # {}
    /\ DOMAIN generated_files = template_keys(requirements) \cup {EnvTemplate}

\* C18: bot.py refers to the knowledge processor iff knowledge_processor.py is
\* in the file set, and the symbol it refers to is the one that file defines,
\* KnowledgeProcessor.
C18_KnowledgeModuleConsistent ==
    Generated =>
        LET refs == BlocksOf(generated_files["bot.py"], "knowledge")
        IN  /\ refs # <<>> <=> "knowledge_processor.py" \in DOMAIN generated_files
            /\ "knowledge_processor.py" \in DOMAIN generated_files =>
                 LET defs == BlocksOf(generated_files["knowledge_processor.py"], "class")
                 IN  /\ Len(defs) = 1
                     /\ defs[1].cls = <<"KnowledgeProcessor">>
                     /\ \A i \in 1..Len(refs) : refs[i].cls = defs[1].cls

\* the generator returned a knowledge module and an entry point that uses it
C18_Witness ==
    /\ Generated
    /\ "knowledge_processor.py" \in DOMAIN generated_files
    /\ BlocksOf(generated_files["bot.py"], "knowledge") # <<>>

\* C19: bot.py holds exactly one construction block for each of STT, LLM and
\* TTS: that of the chosen provider if it is known, the default's otherwise.
C19_OneBlockPerSlot ==
    Generated =>
        \A slot \in Slots :
            LET choice == ChoiceOf(requirements, slot)
                blocks == BlocksOf(generated_files["bot.py"], slot)
            IN  /\ Len(blocks) = 1
                /\ blocks[1].cls = IF choice \in KnownProviders(slot)
                                   THEN <<choice, slot>>
                                   ELSE <<DefaultProvider(slot), slot>>

\* the generator returned for no STT choice, an unknown LLM provider and a
\* known TTS provider other than the default
C19_Witness ==
    /\ Generated
    /\ requirements.stt_service = None
    /\ requirements.llm_service = UnknownProvider
    /\ requirements.tts_service = "elevenlabs"
    /\ Len(generated_files["bot.py"].blocks) >= 4

KeyReportedMissing == \E k \in DOMAIN key_status : ~key_status[k]

\* C21: whenever validate_api_keys reports a required key as missing or
\* invalid, the exception initialize() raises is APIKeyError.
C21_MissingKeyRaisesAPIKeyError ==
    (ipc # "start" /\ KeyReportedMissing) => init_exc = "APIKeyError"


(***************************************************************************)
(* The requirements validator (checked under SpecRequirements).            *)
(***************************************************************************)
\* C22: whenever validate_requirements returns, the channels returned are
\* non-empty and all valid and the languages returned are non-empty and all
\* supported; empty channels have become ['web'] and empty languages ['en'];
\* a channel or language outside the allowed sets makes the call raise
\* ValidationError.
C22_ChannelsAndLanguagesValidated ==
    /\ rout.exc = "none" =>
          /\ rout.requirements.channels # <<>>
          /\ Range(rout.requirements.channels) \subseteq
                {"phone", "web", "mobile", "whatsapp", "telegram"}
          /\ rout.requirements.languages # <<>>
          /\ Range(rout.requirements.languages) \subseteq VALID_LANGUAGES
          /\ rin.channels = <<>> => rout.requirements.channels = <<"web">>
          /\ rin.languages = <<>> => rout.requirements.languages = <<"en">>
    /\ (/\ rout # NotCalled
        /\ \/ ~(Range(rin.channels) \subseteq
                   {"phone", "web", "mobile", "whatsapp", "telegram"})
           \/ ~(Range(rin.languages) \subseteq VALID_LANGUAGES))
          => rout.exc = "ValidationError"

\* requirements without channels and languages were validated and returned
C22_Witness ==
    /\ rout.exc = "none"
    /\ rin.channels = <<>>
    /\ rin.languages = <<>>
    /\ rout.requirements.channels = <<"web">>

\* C23: _validate_deployment_config accepts a deployment exactly when
\* 0 <= scaling_min <= scaling_max <= 100, and raises ValidationError otherwise.
C23_ScalingAcceptedIffInRange ==
    dout # "unchecked" =>
        /\ dout = "ok" <=>
              (0 <= din.scaling_min /\ din.scaling_min <= din.scaling_max
                 /\ din.scaling_max <= 100)
        /\ dout \in {"ok", "ValidationError"}

\* the widest range was accepted
C23_Witness ==
    /\ dout = "ok"
    /\ din.scaling_min = 0
    /\ din.scaling_max = 100

(***************************************************************************)
(* Path containment (checked under SpecPath).                              *)
(***************************************************************************)
\* C26: for every name validate_agent_name accepts, the directory
\* _save_generated_files derives from it lies properly below output_path.
C26_SavedBelowOutputPath ==
    (nout.exc = "none" /\ agent_dir # NoDir) => location(agent_dir) = "below"


(***************************************************************************)
(* The metrics collector (checked under SpecSessions).                     *)
(***************************************************************************)
\* the sessions whose current status is the given one
WithStatus(status) == {id \in DOMAIN sessions : sessions[id].status = status}

\* C24: a session is 'in_progress' from start_session until end_session sets
\* its status and end_time; end_session on an id never started changes no
\* session; get_session_stats reports the number of distinct started ids as
\* total_sessions and the numbers of sessions now 'completed' and 'failed',
\* so completed_sessions + failed_sessions <= total_sessions.
C24_SessionsTracked ==
    /\ DOMAIN sessions = started
    /\ \A id \in DOMAIN sessions :
          ~sessions[id].ended => sessions[id].status = "in_progress"
    /\ last_call.op = "start" =>
          /\ sessions[last_call.id].status = "in_progress"
          /\ ~sessions[last_call.id].ended
    /\ (last_call.op = "end" /\ last_call.id \in DOMAIN before) =>
          /\ sessions[last_call.id].status = last_call.status
          /\ sessions[last_call.id].ended
          /\ sessions[last_call.id].end_time = clock
    /\ (last_call.op = "end" /\ last_call.id \notin DOMAIN before) =>
          sessions = before
    /\ last_call.op = "stats" =>
          /\ stats.total_sessions = Cardinality(started)
          /\ stats.completed_sessions = Cardinality(WithStatus("completed"))
          /\ stats.failed_sessions = Cardinality(WithStatus("failed"))
          /\ stats.completed_sessions + stats.failed_sessions <= stats.total_sessions

\* one session was started and ended as failed, and the statistics were taken
C24_Witness ==
    /\ last_call.op = "stats"
    /\ stats.total_sessions = 1
    /\ stats.failed_sessions = 1
    /\ started = {"s1"}


(***************************************************************************)
(* The remote protocol (checked under Spec).                               *)
(***************************************************************************)
\* the calls of a remote attempt that runs to its end
ExpectedSteps(req) ==
    <<"connect", "generate_code", "optimize">>
    \o (IF req.knowledge_sources THEN <<"integrate_knowledge">> ELSE <<>>)
    \o <<"generate_deployment", "validate_code", "generate_tests">>

\* the calls made to the collaborator
RemoteTrace == SelectSeq(trace, LAMBDA c : c # "template")

IsPrefix(a, b) ==
    /\ Len(a) <= Len(b)
    /\ \A i \in 1..Len(a) : a[i] = b[i]

\* C25: the remote path connects once and runs generate, optimize,
\* integrate-knowledge (iff knowledge_sources is non-empty),
\* generate-deployment-config, validate, generate-tests in this order, each
\* step after the previous one returned and each at most once; the template
\* generator is called only after the remote attempt has ended.
C25_RemoteProtocolInOrder ==
    /\ IsPrefix(RemoteTrace, ExpectedSteps(requirements))
    /\ awaiting =>
          /\ websocket
          /\ Len(trace) < Len(ExpectedSteps(requirements))
          /\ ExpectedSteps(requirements)[Len(trace) + 1] = pc
    /\ \A i \in 1..Len(trace) :
          trace[i] = "template" =>
              /\ i = Len(trace)
              /\ ~websocket
              /\ ~awaiting
              /\ pc \notin RemoteSteps \cup {"connect", "extract", "template"}

\* a remote attempt with knowledge sources ran through all of its steps
C25_Witness ==
    /\ requirements.knowledge_sources
    /\ trace = ExpectedSteps(requirements)


(***************************************************************************)
(* The session of a build (checked under Spec).                            *)
(***************************************************************************)
\* build_agent_interactive has returned or raised
BuildLeft == pc \in {"done", "returned", "raised"}

\* C27: on every exit path of build_agent_interactive the session is ended
\* exactly once, with 'completed' only when the summary was reached and
\* with another terminal status otherwise; it is never left 'in_progress'
\* and never ended twice.
C27_SessionEndedExactlyOnce ==
    BuildLeft =>
        /\ ends = 1
        /\ session # "in_progress"
        /\ session = "completed" <=> pc = "done"


(***************************************************************************)
(* The vectorizer's retry loop (checked under SpecInit).                   *)
(***************************************************************************)
\* the attempts made so far
Attempts == SelectSeq(vtrace, LAMBDA e : e.kind = "attempt")

\* the sleeps made so far
Sleeps == SelectSeq(vtrace, LAMBDA e : e.kind = "sleep")

\* _initialize_vectorizer_with_retry has returned or raised
VectorizerLeft == ipc \in {"health", "initialized", "raised"}

\* what holds of the loop at every moment
VectorizerLoop ==
    /\ Len(Attempts) <= 3
    /\ \A i \in 1..Len(Attempts) :
          /\ Attempts[i].n = i - 1
          /\ Attempts[i].ok => i = Len(Attempts)
          /\ Attempts[i].vectorized <=> Attempts[i].chunks = 0
          /\ Attempts[i].chunks > 0 => Attempts[i].ok
    /\ \A i \in 1..Len(vtrace) :
          vtrace[i].kind = "sleep" =>
              /\ i > 1
              /\ vtrace[i - 1].kind = "attempt"
              /\ ~vtrace[i - 1].ok
              /\ vtrace[i].n = 2 ^ vtrace[i - 1].n
              /\ i = Len(vtrace) => ~VectorizerLeft
              /\ i < Len(vtrace) => vtrace[i + 1].kind = "attempt"
    /\ \A i \in 1..(Len(vtrace) - 1) :
          vtrace[i].kind = "attempt" => vtrace[i + 1].kind = "sleep"
    /\ Len(Sleeps) < 3
    /\ vec_exc = "VectorizationError" <=>
          (Len(Attempts) = 3 /\ \A i \in 1..3 : ~Attempts[i].ok)
    /\ ipc \in {"health", "initialized"} =>
          (Attempts # <<>> /\ Attempts[Len(Attempts)].ok)

\* C29: _initialize_vectorizer_with_retry makes at most 3 attempts, stops at
\* the first that succeeds (vectorizing inside the attempt iff the store has
\* no chunks), sleeps 2^attempt seconds only between attempts, raises
\* VectorizationError exactly when every attempt failed, and always terminates.
C29_VectorizerRetryTerminates ==
    /\ []VectorizerLoop
    /\ (ipc = "vectorizer") ~> VectorizerLeft

\* three attempts failed, with sleeps of 1 and 2 seconds between them
C29_Witness ==
    /\ vec_exc = "VectorizationError"
    /\ Len(vtrace) = 5
    /\ vtrace[2].n = 1
    /\ vtrace[4].n = 2


(***************************************************************************)
(* The deployment's retry loop (checked under SpecRetry).                  *)
(***************************************************************************)
\* the calls of deploy_agent that have returned
DeployCalls == SelectSeq(dtrace, LAMBDA e : e.kind = "call")

\* _deploy_agent_with_retry has returned or raised
RetryLeft == rpc \in {"returned", "raised"}

\* C28: _deploy_agent_with_retry calls deploy_agent at most twice, returns
\* as soon as a call yields status 'success' and returns only such results,
\* handles every other status as a failed attempt, waits only between
\* attempts and raises DeploymentError exactly when both attempts failed.
C28_DeployRetriedOnce ==
    /\ Len(DeployCalls) + (IF rpc = "calling" THEN 1 ELSE 0) <= 2
    /\ \A i \in 1..Len(dtrace) :
          /\ (dtrace[i].kind = "call" /\ dtrace[i].status = "success") =>
                (i = Len(dtrace) /\ rpc = "returned" /\ dresult = "success")
          /\ dtrace[i].kind = "sleep" =>
                /\ i > 1
                /\ dtrace[i - 1].kind = "call"
                /\ dtrace[i - 1].status # "success"
                /\ i = Len(dtrace) => ~RetryLeft
                /\ i < Len(dtrace) => dtrace[i + 1].kind = "call"
          /\ (dtrace[i].kind = "call" /\ i < Len(dtrace)) => dtrace[i + 1].kind = "sleep"
    /\ rpc = "returned" <=> dresult # "none"
    /\ dresult \in {"none", "success"}
    /\ rpc = "returned" => DeployCalls[Len(DeployCalls)].status = "success"
    /\ dexc = "DeploymentError" <=>
          (Len(DeployCalls) = 2 /\ \A i \in 1..2 : DeployCalls[i].status # "success")
    /\ rpc = "raised" <=> dexc = "DeploymentError"

\* the first attempt failed, the loop waited, and the second succeeded
C28_Witness ==
    /\ rpc = "returned"
    /\ Len(dtrace) = 3
    /\ dtrace[1].status = "failed"
    /\ dtrace[2].kind = "sleep"


(***************************************************************************)
(* The conversation (checked under SpecConversation).                      *)
(***************************************************************************)
\* C30: the conversation moves on from GREETING through the extraction
\* states as transcription frames arrive, so a conversation with user input
\* ends with a non-empty agent name in the gathered requirements.
C30_ConversationGathersName ==
    (cpc = "returned" /\ conversation_history # <<>>) => gathered.name # ""

====
